---- MODULE Spec2Model ----
(***************************************************************************)
(* Model of the authentication controller (signup, login, logout,         *)
(* refreshToken, getProfile) over the user collection and the Redis       *)
(* refresh-token cache.                                                    *)
(*                                                                         *)
(* A JSON Web Token is modelled by what jwt.sign puts into it: the         *)
(* payload's userId, the issue time iat in whole seconds, the expiry exp   *)
(* and the secret it is signed with.  HS256 signing is deterministic, so   *)
(* two tokens signed for the same user with the same secret within the     *)
(* same second are the same string, hence the same record here.            *)
(*                                                                         *)
(* Under Spec each handler runs to completion as one step and the user     *)
(* collection and Redis answer every call; request fields are well-formed  *)
(* (emails already lower-cased and trimmed, passwords long enough).        *)
(*                                                                         *)
(* Under SpecConc two requests run at a time and a handler is split where  *)
(* it awaits the user collection or Redis: each call executes atomically   *)
(* at its store, in any order with the other request's calls.  SpecFault   *)
(* adds that any awaited call may throw instead of taking effect.          *)
(***************************************************************************)
EXTENDS Integers, Sequences, FiniteSets, TLC

VARIABLES
    users,       \* the user collection, in order of creation; _id is the index
    redis,       \* Redis: key refresh_token:<userId> -> value and expiry time
    now,         \* wall clock, in seconds
    req,         \* the request handled last
    res,         \* the response to req: status, json body, cookie operations
    signed,      \* tokens jwt.sign produced while handling req
    redisOps,    \* Redis commands issued while handling req
    issued,      \* refresh tokens handed to clients in a refreshToken cookie
    procs        \* the requests in flight when handlers interleave at their
                 \* awaits: per slot the handler's position, locals, response

vars == <<users, redis, now, req, res, signed, redisOps, issued, procs>>

----------------------------------------------------------------------------
(* Bounds and program constants *)

AccessTTL == 900

RefreshTTL == 604800

RedisEX == 604800

MaxTicks == 1

MaxNow == RefreshTTL + MaxTicks

TickSteps == {1, RefreshTTL}

Emails == {"a@x.com", "b@x.com"}

Passwords == {"secret1", "secret2"}

Names == {"Alice"}

UserIds == 1..Cardinality(Emails)

ACCESS_TOKEN_SECRET == "ACCESS_TOKEN_SECRET"

REFRESH_TOKEN_SECRET == "REFRESH_TOKEN_SECRET"

----------------------------------------------------------------------------
(* Values *)

NoToken == [userId |-> 0, iat |-> 0, exp |-> 0, sig |-> "undefined"]

NoUser == [_id |-> 0, name |-> "", email |-> "", password |-> "", role |-> ""]

NoBody == [_id |-> 0, name |-> "", email |-> "", role |-> ""]

NoEntry == [value |-> NoToken, expireAt |-> 0]

NoCookieOp == [act |-> "none", val |-> NoToken]

SetCookie(token) == [act |-> "set", val |-> token]

ClearCookie == [act |-> "clear", val |-> NoToken]

NoReq ==
    [op |-> "idle", email |-> "", password |-> "", name |-> "",
     cookie |-> NoToken, user |-> NoUser]

NoRes ==
    [status |-> 0, message |-> "", body |-> NoBody,
     accessCookie |-> NoCookieOp, refreshCookie |-> NoCookieOp]

Request(op) == [NoReq EXCEPT !.op = op]

NoTokens == [accessToken |-> NoToken, refreshToken |-> NoToken]

\* The two request slots of the interleaved specifications.
Slots == {"A", "B"}

\* A slot with no request: req is the request, pc the awaited call (or
\* "idle"/"done"), user, tk and storedToken the handler's locals, res the
\* response, sent the number of responses sent, signed the tokens signed.
NoProc ==
    [req |-> NoReq, pc |-> "idle", user |-> NoUser, tk |-> NoTokens,
     storedToken |-> NoToken, res |-> NoRes, sent |-> 0, signed |-> {}]

\* res.status(s).json({ message: m })
JsonMessage(s, m) == [NoRes EXCEPT !.status = s, !.message = m]

----------------------------------------------------------------------------
(* jsonwebtoken *)

JwtSign(userId, secret, expiresIn, t) ==
    [userId |-> userId, iat |-> t, exp |-> t + expiresIn, sig |-> secret]

\* jwt.verify returns the payload iff the signature matches and the token
\* has not expired; otherwise it throws.
JwtVerifies(token, secret, t) ==
    /\ token.sig = secret
    /\ t < token.exp

generateTokens(userId, t) ==
    [accessToken  |-> JwtSign(userId, ACCESS_TOKEN_SECRET, AccessTTL, t),
     refreshToken |-> JwtSign(userId, REFRESH_TOKEN_SECRET, RefreshTTL, t)]

----------------------------------------------------------------------------
(* Redis *)

RedisSet(r, key, value, ex, t) ==
    [r EXCEPT ![key] = [value |-> value, expireAt |-> t + ex]]

RedisGet(r, key) == r[key].value

\* The DEL that deletes nothing.
RedisDel_noop(r, key) == r

RedisDel(r, key) == [r EXCEPT ![key] = NoEntry]

\* Keys whose time to live has run out are gone.
RedisExpire(r, t) ==
    [k \in DOMAIN r |-> IF t < r[k].expireAt THEN r[k] ELSE NoEntry]

\* The key built without the user id: every token lands under one key.
storeRefreshToken_oneKey(r, userId, refreshToken, t) ==
    RedisSet(r, 1, refreshToken, RedisEX, t)

\* The token is generated but never written to Redis.
storeRefreshToken_noStore(r, userId, refreshToken, t) == r

storeRefreshToken(r, userId, refreshToken, t) ==
    RedisSet(r, userId, refreshToken, RedisEX, t)

----------------------------------------------------------------------------
(* User model *)

FindOne(us, email) ==
    IF \E i \in 1..Len(us) : us[i].email = email
    THEN us[CHOOSE i \in 1..Len(us) : us[i].email = email]
    ELSE NoUser

\* User.create: the new document; role takes the schema's default.
NewUser(us, name, email, password) ==
    [_id |-> Len(us) + 1, name |-> name, email |-> email,
     password |-> password, role |-> "user"]

\* The stored hash verifies exactly the password it was made from.
comparePassword(user, password) == user.password = password

Projection(user) ==
    [_id |-> user._id, name |-> user.name, email |-> user.email,
     role |-> user.role]

----------------------------------------------------------------------------
(* State *)

Init ==
    /\ users = <<>>
    /\ redis = [k \in UserIds |-> NoEntry]
    /\ now = 0
    /\ req = NoReq
    /\ res = NoRes
    /\ signed = {}
    /\ redisOps = {}
    /\ issued = {}
    /\ procs = [s \in Slots |-> NoProc]

----------------------------------------------------------------------------
(* Controller helpers *)

setCookies(r, accessToken, refreshToken) ==
    [r EXCEPT !.accessCookie = SetCookie(accessToken),
              !.refreshCookie = SetCookie(refreshToken)]

\* The new access token written under the refreshToken cookie name.
setAccessCookie_asRefresh(r, accessToken) ==
    [r EXCEPT !.refreshCookie = SetCookie(accessToken)]

\* res.cookie("accessToken", accessToken, ...) of refreshToken
setAccessCookie(r, accessToken) ==
    [r EXCEPT !.accessCookie = SetCookie(accessToken)]

\* res.clearCookie("accessToken"); res.clearCookie("refreshToken")
clearCookies(r) ==
    [r EXCEPT !.accessCookie = ClearCookie, !.refreshCookie = ClearCookie]

\* The existence check dropped.
UserExists_never(user) == FALSE

\* if (userExists)
UserExists(user) == user # NoUser

\* The password comparison dropped.
CredentialsOk_noPassword(user, password) == user # NoUser

\* if (user && (await user.comparePassword(password)))
CredentialsOk(user, password) ==
    /\ user # NoUser
    /\ comparePassword(user, password)

\* The missing-cookie check dropped.
Present_always(cookie) == TRUE

\* if (refreshToken): an absent cookie is undefined
Present(cookie) == cookie # NoToken

\* Tokens compared by their user instead of byte for byte.
TokensMatch_sameUser(storedToken, refreshToken) ==
    storedToken.userId = refreshToken.userId

\* the negation of: storedToken !== refreshToken
TokensMatch(storedToken, refreshToken) == storedToken = refreshToken

\* Cookie values a client can send: none, a refresh token it was handed, or
\* a token that is not signed with the refresh secret (an access token, or a
\* token with a made-up signature).
Cookies ==
    {NoToken} \cup issued
    \cup {JwtSign(1, ACCESS_TOKEN_SECRET, AccessTTL, now),
          JwtSign(1, "tampered", RefreshTTL, now)}

\* What the protecting middleware may have attached as req.user
ReqUsers == {NoUser} \cup {users[i] : i \in 1..Len(users)}

----------------------------------------------------------------------------
(* Handlers *)

signup(email, password, name) ==
    LET userExists == FindOne(users, email)
        user == NewUser(users, name, email, password)
        tk == generateTokens(user._id, now)
    IN  /\ req' = [Request("signup") EXCEPT !.email = email,
                       !.password = password, !.name = name]
        /\ IF UserExists(userExists)
           THEN /\ res' = JsonMessage(400, "User already exists")
                /\ signed' = {}
                /\ redisOps' = {}
                /\ UNCHANGED <<users, redis, issued>>
           ELSE /\ users' = Append(users, user)
                /\ signed' = {tk.accessToken, tk.refreshToken}
                /\ redis' = storeRefreshToken(redis, user._id, tk.refreshToken, now)
                /\ redisOps' = {"set"}
                /\ res' = [setCookies(NoRes, tk.accessToken, tk.refreshToken)
                             EXCEPT !.status = 201, !.body = Projection(user)]
                /\ issued' = issued \cup {tk.refreshToken}
        /\ UNCHANGED <<now, procs>>

login(email, password) ==
    LET user == FindOne(users, email)
        tk == generateTokens(user._id, now)
    IN  /\ req' = [Request("login") EXCEPT !.email = email,
                       !.password = password]
        /\ IF CredentialsOk(user, password)
           THEN /\ signed' = {tk.accessToken, tk.refreshToken}
                /\ redis' = storeRefreshToken(redis, user._id, tk.refreshToken, now)
                /\ redisOps' = {"set"}
                /\ res' = [setCookies(NoRes, tk.accessToken, tk.refreshToken)
                             EXCEPT !.status = 200, !.body = Projection(user),
                                    !.message = "Login successful"]
                /\ issued' = issued \cup {tk.refreshToken}
           ELSE /\ res' = JsonMessage(400, "Invalid email or password")
                /\ signed' = {}
                /\ redisOps' = {}
                /\ UNCHANGED <<redis, issued>>
        /\ UNCHANGED <<users, now, procs>>

\* A logout that deletes the cached token only when the cookie equals it.
logout_compares(cookie) ==
    /\ req' = [Request("logout") EXCEPT !.cookie = cookie]
    /\ signed' = {}
    /\ IF ~Present(cookie)
       THEN /\ res' = clearCookies(JsonMessage(200, "Logged out successfully"))
            /\ redisOps' = {}
            /\ UNCHANGED redis
       ELSE IF JwtVerifies(cookie, REFRESH_TOKEN_SECRET, now)
       THEN /\ redis' = IF TokensMatch(RedisGet(redis, cookie.userId), cookie)
                        THEN RedisDel(redis, cookie.userId)
                        ELSE redis
            /\ redisOps' = {"get", "del"}
            /\ res' = clearCookies(JsonMessage(200, "Logged out successfully"))
       ELSE /\ res' = JsonMessage(500, "Server error")
            /\ redisOps' = {}
            /\ UNCHANGED redis
    /\ UNCHANGED <<users, now, issued, procs>>

logout(cookie) ==
    /\ req' = [Request("logout") EXCEPT !.cookie = cookie]
    /\ signed' = {}
    /\ IF ~Present(cookie)
       THEN /\ res' = clearCookies(JsonMessage(200, "Logged out successfully"))
            /\ redisOps' = {}
            /\ UNCHANGED redis
       ELSE IF JwtVerifies(cookie, REFRESH_TOKEN_SECRET, now)
       THEN /\ redis' = RedisDel(redis, cookie.userId)
            /\ redisOps' = {"del"}
            /\ res' = clearCookies(JsonMessage(200, "Logged out successfully"))
       ELSE \* jwt.verify throws; the catch block answers
            /\ res' = JsonMessage(500, "Server error")
            /\ redisOps' = {}
            /\ UNCHANGED redis
    /\ UNCHANGED <<users, now, issued, procs>>

\* The response of refreshToken, the tokens it signs and the Redis commands
\* it issues, for a refreshToken cookie, Redis content r and clock t.
refreshOutcome(cookie, r, t) ==
    LET accessToken ==
            JwtSign(cookie.userId, ACCESS_TOKEN_SECRET, AccessTTL, t)
    IN  IF ~Present(cookie)
        THEN [res |-> JsonMessage(401, "No refresh token provided"),
              signed |-> {}, redisOps |-> {}]
        ELSE IF ~JwtVerifies(cookie, REFRESH_TOKEN_SECRET, t)
        THEN \* jwt.verify throws; the catch block answers
             [res |-> JsonMessage(500, "Server error"),
              signed |-> {}, redisOps |-> {}]
        ELSE IF ~TokensMatch(RedisGet(r, cookie.userId), cookie)
        THEN [res |-> JsonMessage(401, "Invalid refresh token"),
              signed |-> {}, redisOps |-> {"get"}]
        ELSE [res |-> setAccessCookie(
                          JsonMessage(200, "Token refreshed successfully"),
                          accessToken),
              signed |-> {accessToken}, redisOps |-> {"get"}]

refreshToken(cookie) ==
    LET out == refreshOutcome(cookie, redis, now)
    IN  /\ req' = [Request("refresh") EXCEPT !.cookie = cookie]
        /\ res' = out.res
        /\ signed' = out.signed
        /\ redisOps' = out.redisOps
        /\ UNCHANGED <<users, redis, now, issued, procs>>

getProfile(user) ==
    /\ req' = [Request("getProfile") EXCEPT !.user = user]
    /\ IF user = NoUser
       THEN res' = JsonMessage(401, "Not logged in")
       ELSE res' = [NoRes EXCEPT !.status = 200, !.body = user]
    /\ signed' = {}
    /\ redisOps' = {}
    /\ UNCHANGED <<users, redis, now, issued, procs>>

\* Time passes between requests; Redis drops the keys that expire.
Tick(d) ==
    /\ (now + d) % RefreshTTL <= MaxTicks
    /\ now + d <= MaxNow
    /\ now' = now + d
    /\ redis' = RedisExpire(redis, now + d)
    /\ req' = NoReq
    /\ res' = NoRes
    /\ signed' = {}
    /\ redisOps' = {}
    /\ UNCHANGED <<users, issued, procs>>

Next ==
    \/ \E e \in Emails, p \in Passwords, n \in Names : signup(e, p, n)
    \/ \E e \in Emails, p \in Passwords : login(e, p)
    \/ \E c \in Cookies : logout(c)
    \/ \E c \in Cookies : refreshToken(c)
    \/ \E u \in ReqUsers : getProfile(u)
    \/ \E d \in TickSteps : Tick(d)

Spec == Init /\ [][Next]_vars

----------------------------------------------------------------------------
(* Handlers interleaved at their awaits *)

\* The handler sends its response and returns.
Respond(p, r) == [p EXCEPT !.res = r, !.sent = @ + 1, !.pc = "done"]

\* The error leaves the handler: no catch block answers.
Catch_escapes(p, message) == [p EXCEPT !.pc = "done"]

\* The catch block of a handler: one 500 response carrying a message.  The
\* cookies already written on res go out with it.
Catch(p, message) ==
    Respond(p, [p.res EXCEPT !.status = 500, !.message = message])

\* What the catch block of each handler puts in the message field.
CatchMessage(op, errorMessage) ==
    IF op \in {"signup", "login"} THEN errorMessage ELSE "Server error"

\* The calls a handler awaits on the user collection and on Redis.
Awaited == {"findOne", "create", "set", "get", "del"}

OtherFrame == <<req, res, signed, redisOps>>

\* Slot B takes a request only while slot A holds one: which slot a request
\* occupies makes no difference to it.
Free(s) ==
    /\ procs[s].pc = "idle"
    /\ s = "B" => procs["A"].pc # "idle"

\* The password of the accounts created while requests interleave; logins
\* still try every password.
SignupPasswords == {"secret1"}

\* The cookies tried while requests interleave: none, a refresh token handed
\* out earlier, or a token with a made-up signature.
ConcCookies ==
    {NoToken} \cup issued \cup {JwtSign(1, "tampered", RefreshTTL, now)}

\* A request arrives; the handler runs up to its first await.
StartSignup(s, email, password, name) ==
    /\ Free(s)
    /\ procs' = [procs EXCEPT ![s] =
           [NoProc EXCEPT !.pc = "findOne",
               !.req = [Request("signup") EXCEPT !.email = email,
                            !.password = password, !.name = name]]]
    /\ UNCHANGED <<users, redis, now, issued, OtherFrame>>

StartLogin(s, email, password) ==
    /\ Free(s)
    /\ procs' = [procs EXCEPT ![s] =
           [NoProc EXCEPT !.pc = "findOne",
               !.req = [Request("login") EXCEPT !.email = email,
                            !.password = password]]]
    /\ UNCHANGED <<users, redis, now, issued, OtherFrame>>

StartLogout(s, cookie) ==
    LET p == [NoProc EXCEPT
                  !.req = [Request("logout") EXCEPT !.cookie = cookie]]
    IN  /\ Free(s)
        /\ procs' = [procs EXCEPT ![s] =
               IF ~Present(cookie)
               THEN Respond(p, clearCookies(
                        JsonMessage(200, "Logged out successfully")))
               ELSE IF JwtVerifies(cookie, REFRESH_TOKEN_SECRET, now)
               THEN [p EXCEPT !.pc = "del"]
               ELSE Catch(p, CatchMessage("logout", "invalid token"))]
        /\ UNCHANGED <<users, redis, now, issued, OtherFrame>>

StartRefresh(s, cookie) ==
    LET p == [NoProc EXCEPT
                  !.req = [Request("refresh") EXCEPT !.cookie = cookie]]
    IN  /\ Free(s)
        /\ procs' = [procs EXCEPT ![s] =
               IF ~Present(cookie)
               THEN Respond(p, JsonMessage(401, "No refresh token provided"))
               ELSE IF JwtVerifies(cookie, REFRESH_TOKEN_SECRET, now)
               THEN [p EXCEPT !.pc = "get"]
               ELSE Catch(p, CatchMessage("refresh", "invalid token"))]
        /\ UNCHANGED <<users, redis, now, issued, OtherFrame>>

StartGetProfile(s, user) ==
    LET p == [NoProc EXCEPT
                  !.req = [Request("getProfile") EXCEPT !.user = user]]
    IN  /\ Free(s)
        /\ procs' = [procs EXCEPT ![s] =
               IF user = NoUser
               THEN Respond(p, JsonMessage(401, "Not logged in"))
               ELSE Respond(p, [NoRes EXCEPT !.status = 200, !.body = user])]
        /\ UNCHANGED <<users, redis, now, issued, OtherFrame>>

\* setCookies called before storeRefreshToken: the cookies are on res when
\* the store is awaited.
CookiesFirst(p, tk) == setCookies(p.res, tk.accessToken, tk.refreshToken)

\* setCookies is called after the awaited store: nothing is on res before.
CookiesWhileStoring(p, tk) == p.res

\* User.findOne({ email }) executes; signup goes on to its existence check,
\* login to comparePassword and generateTokens.
FindOneStep(s) ==
    LET p == procs[s]
        user == FindOne(users, p.req.email)
        tk == generateTokens(user._id, now)
    IN  /\ p.pc = "findOne"
        /\ procs' = [procs EXCEPT ![s] =
               IF p.req.op = "signup"
               THEN IF UserExists(user)
                    THEN Respond(p, JsonMessage(400, "User already exists"))
                    ELSE [p EXCEPT !.pc = "create"]
               ELSE IF CredentialsOk(user, p.req.password)
                    THEN [p EXCEPT !.pc = "set", !.user = user, !.tk = tk,
                             !.res = CookiesWhileStoring(p, tk),
                             !.signed = {tk.accessToken, tk.refreshToken}]
                    ELSE Respond(p,
                             JsonMessage(400, "Invalid email or password"))]
        /\ UNCHANGED <<users, redis, now, issued, OtherFrame>>

\* The collection without the unique index on email.
UniqueViolation_off(us, email) == FALSE

\* email: { unique: true }: the index rejects a second record with the email.
UniqueViolation(us, email) == \E i \in 1..Len(us) : us[i].email = email

\* User.create executes: the unique index on email rejects a duplicate and
\* the handler's catch block answers; otherwise the record is inserted and
\* the handler goes on to generateTokens.
CreateStep(s) ==
    LET p == procs[s]
        user == NewUser(users, p.req.name, p.req.email, p.req.password)
        tk == generateTokens(user._id, now)
    IN  /\ p.pc = "create"
        /\ IF UniqueViolation(users, p.req.email)
           THEN /\ procs' = [procs EXCEPT ![s] =
                       Catch(p, CatchMessage("signup", "E11000 duplicate key"))]
                /\ UNCHANGED users
           ELSE /\ users' = Append(users, user)
                /\ procs' = [procs EXCEPT ![s] =
                       [p EXCEPT !.pc = "set", !.user = user, !.tk = tk,
                           !.res = CookiesWhileStoring(p, tk),
                           !.signed = {tk.accessToken, tk.refreshToken}]]
        /\ UNCHANGED <<redis, now, issued, OtherFrame>>

\* redis.set of storeRefreshToken executes; then setCookies and the response.
SetStep(s) ==
    LET p == procs[s]
        r == setCookies(p.res, p.tk.accessToken, p.tk.refreshToken)
    IN  /\ p.pc = "set"
        /\ redis' = storeRefreshToken(redis, p.user._id, p.tk.refreshToken, now)
        /\ issued' = issued \cup {p.tk.refreshToken}
        /\ procs' = [procs EXCEPT ![s] =
               IF p.req.op = "signup"
               THEN Respond(p, [r EXCEPT !.status = 201,
                                   !.body = Projection(p.user)])
               ELSE Respond(p, [r EXCEPT !.status = 200,
                                   !.body = Projection(p.user),
                                   !.message = "Login successful"])]
        /\ UNCHANGED <<users, now, OtherFrame>>

\* redis.del of logout executes; then both cookies are cleared.
DelStep(s) ==
    LET p == procs[s]
    IN  /\ p.pc = "del"
        /\ redis' = RedisDel(redis, p.req.cookie.userId)
        /\ procs' = [procs EXCEPT ![s] =
               Respond(p, clearCookies(
                   JsonMessage(200, "Logged out successfully")))]
        /\ UNCHANGED <<users, now, issued, OtherFrame>>

\* redis.get of refreshToken executes.
GetStep(s) ==
    LET p == procs[s]
    IN  /\ p.pc = "get"
        /\ procs' = [procs EXCEPT ![s] =
               [p EXCEPT !.pc = "compare",
                   !.storedToken = RedisGet(redis, p.req.cookie.userId)]]
        /\ UNCHANGED <<users, redis, now, issued, OtherFrame>>

\* A refresh that compares the cookie with what Redis holds when it resumes
\* rather than with the value it read.
CompareStep_rereads(s) ==
    LET p == procs[s]
        accessToken ==
            JwtSign(p.req.cookie.userId, ACCESS_TOKEN_SECRET, AccessTTL, now)
    IN  /\ p.pc = "compare"
        /\ procs' = [procs EXCEPT ![s] =
               IF ~TokensMatch(RedisGet(redis, p.req.cookie.userId),
                               p.req.cookie)
               THEN Respond(p, JsonMessage(401, "Invalid refresh token"))
               ELSE Respond([p EXCEPT !.signed = {accessToken}],
                        setAccessCookie(
                            JsonMessage(200, "Token refreshed successfully"),
                            accessToken))]
        /\ UNCHANGED <<users, redis, now, issued, OtherFrame>>

\* refreshToken resumes after the read: the comparison, the new access token
\* and the response.
CompareStep(s) ==
    LET p == procs[s]
        accessToken ==
            JwtSign(p.req.cookie.userId, ACCESS_TOKEN_SECRET, AccessTTL, now)
    IN  /\ p.pc = "compare"
        /\ procs' = [procs EXCEPT ![s] =
               IF ~TokensMatch(p.storedToken, p.req.cookie)
               THEN Respond(p, JsonMessage(401, "Invalid refresh token"))
               ELSE Respond([p EXCEPT !.signed = {accessToken}],
                        setAccessCookie(
                            JsonMessage(200, "Token refreshed successfully"),
                            accessToken))]
        /\ UNCHANGED <<users, redis, now, issued, OtherFrame>>

\* An awaited call on the user collection or on Redis rejects without
\* having taken effect; the handler's catch block answers.
Throw(s) ==
    LET p == procs[s]
    IN  /\ p.pc \in Awaited
        /\ procs' = [procs EXCEPT ![s] =
               Catch(p, CatchMessage(p.req.op, "store unavailable"))]
        /\ UNCHANGED <<users, redis, now, issued, OtherFrame>>

\* Both responses are out; the next pair of requests can arrive.
EndRound ==
    /\ \A s \in Slots : procs[s].pc \in {"idle", "done"}
    /\ \E s \in Slots : procs[s].pc = "done"
    /\ procs' = [s \in Slots |-> NoProc]
    /\ UNCHANGED <<users, redis, now, issued, OtherFrame>>

\* A second passes while requests are in flight.
TickConc ==
    /\ now + 1 <= MaxTicks
    /\ now' = now + 1
    /\ redis' = RedisExpire(redis, now + 1)
    /\ UNCHANGED <<users, issued, procs, OtherFrame>>

NextConc ==
    \/ \E s \in Slots, e \in Emails, p \in SignupPasswords, n \in Names :
          StartSignup(s, e, p, n)
    \/ \E s \in Slots, e \in Emails, p \in Passwords : StartLogin(s, e, p)
    \/ \E s \in Slots, c \in ConcCookies : StartLogout(s, c)
    \/ \E s \in Slots, c \in ConcCookies : StartRefresh(s, c)
    \/ \E s \in Slots, u \in ReqUsers : StartGetProfile(s, u)
    \/ \E s \in Slots : FindOneStep(s)
    \/ \E s \in Slots : CreateStep(s)
    \/ \E s \in Slots : SetStep(s)
    \/ \E s \in Slots : DelStep(s)
    \/ \E s \in Slots : GetStep(s)
    \/ \E s \in Slots : CompareStep(s)
    \/ EndRound
    \/ TickConc

SpecConc == Init /\ [][NextConc]_vars

NextFault ==
    \/ NextConc
    \/ \E s \in Slots : Throw(s)

SpecFault == Init /\ [][NextFault]_vars

TypeOK ==
    /\ now \in 0..MaxNow
    /\ now % RefreshTTL <= MaxTicks
    /\ Len(users) <= Cardinality(Emails)
    /\ \A i \in 1..Len(users) : users[i]._id = i
    /\ \A i, j \in 1..Len(users) : users[i].email = users[j].email => i = j
    /\ req.op \in {"idle", "signup", "login", "logout", "refresh", "getProfile"}
    /\ res.status \in {0, 200, 201, 400, 401, 500}

----------------------------------------------------------------------------
(* Vocabulary of the properties *)

\* c is a refresh token with a good signature that has not expired at time t.
ValidRefresh(c, t) ==
    /\ c # NoToken
    /\ c.sig = REFRESH_TOKEN_SECRET
    /\ t < c.exp

\* The value Redis holds under the key of user u (NoToken when there is none).
Cached(r, u) == r[u].value

\* Some user record carries this email.
EmailTaken(us, email) == \E i \in 1..Len(us) : us[i].email = email

NoCookiesSet(r) ==
    /\ r.accessCookie = NoCookieOp
    /\ r.refreshCookie = NoCookieOp

\* refresh() would answer 200 to cookie c in the state (r, t).
Honored(c, r, t) == refreshOutcome(c, r, t).res.status = 200

----------------------------------------------------------------------------
(* C1: at most one refresh token per user is honored by refresh(), and    *)
(* once a login of user U has succeeded, every refresh token that was      *)
(* issued to U before that login is refused by refresh().                  *)
C1_LoginRevokesEarlierTokens ==
    [][ /\ \A u \in UserIds :
              Cardinality({t \in issued' :
                             t.userId = u /\ Honored(t, redis', now')}) <= 1
        /\ (req'.op = "login" /\ res'.status = 200) =>
              \A t \in issued :
                  t.userId = res'.body._id => ~Honored(t, redis', now')
      ]_vars

(* C2: logout() answers with success and clears both cookies whatever the *)
(* refresh cookie is: absent, valid, expired or tampered.                  *)
C2_LogoutAlwaysClears ==
    req.op = "logout" =>
        /\ res.status = 200
        /\ res.accessCookie = ClearCookie
        /\ res.refreshCookie = ClearCookie

(* C3: refresh() with an expired or badly signed refresh cookie answers    *)
(* 401, sets no access cookie and leaves the cache unchanged.              *)
C3_InvalidTokenIs401 ==
    [][ (/\ req'.op = "refresh"
         /\ req'.cookie # NoToken
         /\ ~ValidRefresh(req'.cookie, now'))
        => /\ res'.status = 401
           /\ res'.accessCookie = NoCookieOp
           /\ redis' = redis
      ]_vars

(* C4: refresh() with a valid, unexpired refresh token of user U that      *)
(* differs from the value cached for U (or when nothing is cached for U)   *)
(* answers 401, signs no access token, sets no cookie and leaves the       *)
(* cache unchanged.                                                        *)
C4_MismatchRejected ==
    [][ (/\ req'.op = "refresh"
         /\ ValidRefresh(req'.cookie, now')
         /\ Cached(redis, req'.cookie.userId) # req'.cookie)
        => /\ res'.status = 401
           /\ signed' = {}
           /\ NoCookiesSet(res')
           /\ redis' = redis
      ]_vars

C4_Witness ==
    /\ req.op = "refresh"
    /\ ValidRefresh(req.cookie, now)
    /\ Cached(redis, req.cookie.userId) # NoToken
    /\ Cached(redis, req.cookie.userId) # req.cookie
    /\ res.status = 401

(* C5: refresh() with a valid refresh token equal to the cached value      *)
(* signs one access token for that user and sets only the access cookie;   *)
(* the cache and the refresh cookie are untouched, so the same token is    *)
(* honored again by the next refresh().                                    *)
C5_RefreshDoesNotRotate ==
    [][ (/\ req'.op = "refresh"
         /\ ValidRefresh(req'.cookie, now')
         /\ Cached(redis, req'.cookie.userId) = req'.cookie)
        => /\ res'.status = 200
           /\ res'.accessCookie.act = "set"
           /\ res'.accessCookie.val.userId = req'.cookie.userId
           /\ res'.accessCookie.val.sig = ACCESS_TOKEN_SECRET
           /\ res'.accessCookie.val.exp = now' + AccessTTL
           /\ signed' = {res'.accessCookie.val}
           /\ res'.refreshCookie = NoCookieOp
           /\ redis' = redis
           /\ Honored(req'.cookie, redis', now')
      ]_vars

C5_Witness ==
    /\ req.op = "refresh"
    /\ ValidRefresh(req.cookie, now)
    /\ Cached(redis, req.cookie.userId) = req.cookie
    /\ res.status = 200
    /\ res.accessCookie.act = "set"
    /\ now > req.cookie.iat

(* C6: once a logout() presenting a valid refresh cookie of user U has     *)
(* completed, the cache holds nothing for U; while it holds nothing for U  *)
(* every refresh() presenting a refresh token of U fails; and the entry    *)
(* of U reappears only through a successful login or signup of U.          *)
C6_LogoutRevokes ==
    [][ /\ (/\ req'.op = "logout"
            /\ ValidRefresh(req'.cookie, now'))
           => /\ res'.status = 200
              /\ Cached(redis', req'.cookie.userId) = NoToken
        /\ (/\ req'.op = "refresh"
            /\ req'.cookie # NoToken
            /\ req'.cookie.userId \in UserIds
            /\ Cached(redis, req'.cookie.userId) = NoToken)
           => /\ res'.status \in {401, 500}
              /\ signed' = {}
        /\ \A u \in UserIds :
              (Cached(redis, u) = NoToken /\ Cached(redis', u) # NoToken)
              => /\ req'.op \in {"login", "signup"}
                 /\ res'.status \in {200, 201}
                 /\ res'.body._id = u
      ]_vars

\* A refresh token that has not expired is refused because its user has
\* logged out (the Redis key lives as long as the token, so it was deleted).
C6_Witness ==
    /\ req.op = "refresh"
    /\ req.cookie \in issued
    /\ ValidRefresh(req.cookie, now)
    /\ Cached(redis, req.cookie.userId) = NoToken
    /\ res.status = 401

(* C7: signup() with an email that a user already has answers 400,         *)
(* creates no user, signs and stores no token (the cache is unchanged)     *)
(* and sets no cookie.                                                     *)
C7_DuplicateSignupRejected ==
    [][ (/\ req'.op = "signup"
         /\ EmailTaken(users, req'.email))
        => /\ res' = JsonMessage(400, "User already exists")
           /\ users' = users
           /\ redis' = redis
           /\ signed' = {}
           /\ redisOps' = {}
           /\ issued' = issued
      ]_vars

C7_Witness ==
    /\ req.op = "signup"
    /\ res.status = 400
    /\ \E i \in 1..Len(users) :
          /\ users[i].email = req.email
          /\ Cached(redis, i) # NoToken

(* C8: signup() with an email no user has creates exactly one user record, *)
(* signs one access and one refresh token embedding the new user's id and  *)
(* answers 201 with the refresh cookie equal to the value cached under     *)
(* that id.                                                                *)
C8_SignupCreatesAndCaches ==
    [][ (/\ req'.op = "signup"
         /\ ~EmailTaken(users, req'.email))
        => LET id == Len(users) + 1
           IN  /\ Len(users') = id
               /\ SubSeq(users', 1, Len(users)) = users
               /\ users'[id].email = req'.email
               /\ users'[id]._id = id
               /\ res'.status = 201
               /\ res'.body._id = id
               /\ res'.body.email = req'.email
               /\ res'.accessCookie.act = "set"
               /\ res'.refreshCookie.act = "set"
               /\ res'.accessCookie.val.sig = ACCESS_TOKEN_SECRET
               /\ res'.refreshCookie.val.sig = REFRESH_TOKEN_SECRET
               /\ res'.accessCookie.val.userId = id
               /\ res'.refreshCookie.val.userId = id
               /\ signed' = {res'.accessCookie.val, res'.refreshCookie.val}
               /\ Cached(redis', id) = res'.refreshCookie.val
               /\ \A u \in UserIds \ {id} : redis'[u] = redis[u]
      ]_vars

C8_Witness ==
    /\ req.op = "signup"
    /\ res.status = 201
    /\ Len(users) = 2
    /\ res.body._id = 2
    /\ Cached(redis, 2) = res.refreshCookie.val
    /\ Cached(redis, 1) # NoToken

(* C9: login() with an unknown email and login() with a known email and a  *)
(* wrong password get the same response, 400 with the same message; no     *)
(* token is signed, no cookie is set and the cache is unchanged, so a      *)
(* refresh token honored before is honored after.                          *)
C9_LoginFailuresIdentical ==
    [][ (/\ req'.op = "login"
         /\ \/ ~EmailTaken(users, req'.email)
            \/ \E i \in 1..Len(users) :
                  /\ users[i].email = req'.email
                  /\ users[i].password # req'.password)
        => /\ res' = JsonMessage(400, "Invalid email or password")
           /\ signed' = {}
           /\ redisOps' = {}
           /\ redis' = redis
           /\ \A t \in issued :
                 Honored(t, redis, now) => Honored(t, redis', now')
      ]_vars

C9_Witness ==
    /\ req.op = "login"
    /\ res.status = 400
    /\ \E i \in 1..Len(users) :
          /\ users[i].email = req.email
          /\ users[i].password # req.password
          /\ Cached(redis, i) \in issued
          /\ Honored(Cached(redis, i), redis, now)

(* C10: refresh() without a refresh cookie answers 401 without reading or  *)
(* writing the cache and without setting a cookie.                         *)
C10_NoCookieUnauthenticated ==
    [][ (/\ req'.op = "refresh"
         /\ req'.cookie = NoToken)
        => /\ res' = JsonMessage(401, "No refresh token provided")
           /\ redisOps' = {}
           /\ redis' = redis
           /\ signed' = {}
      ]_vars

C10_Witness ==
    /\ req.op = "refresh"
    /\ req.cookie = NoToken
    /\ res.status = 401
    /\ redisOps = {}
    /\ \E u \in UserIds : Cached(redis, u) # NoToken

----------------------------------------------------------------------------
(* Vocabulary of the properties about interleaved requests *)

Other(s) == CHOOSE o \in Slots : o # s

\* Slot s took the step that ends at pc "done" from the awaited call c.
Completes(s, c) == procs[s].pc = c /\ procs'[s].pc = "done"

\* Both slots hold a login with the email and the password of one user.
LoginPair(ps, us) ==
    \E i \in 1..Len(us) : \A s \in Slots :
        /\ ps[s].req.op = "login"
        /\ ps[s].req.email = us[i].email
        /\ ps[s].req.password = us[i].password

(* C11: when two logins of the same user interleave, each completes with   *)
(* 200 and both cookies set, each cache write leaves the writer's refresh  *)
(* token in the cache, and once both are done refresh() honors the token   *)
(* of the login that wrote last and refuses the other login's token.       *)
C11_ConcurrentLoginsLastWriteWins ==
    [][ LoginPair(procs', users') =>
        \A s \in Slots :
            /\ procs'[s].pc = "done" =>
                  /\ procs'[s].res.status = 200
                  /\ procs'[s].res.accessCookie.act = "set"
                  /\ procs'[s].res.refreshCookie =
                         SetCookie(procs'[s].tk.refreshToken)
            /\ Completes(s, "set") =>
                  /\ Cached(redis', procs'[s].user._id) =
                         procs'[s].tk.refreshToken
                  /\ Honored(procs'[s].tk.refreshToken, redis', now')
            /\ (Completes(s, "set") /\ procs[Other(s)].pc = "done") =>
                  ~Honored(procs'[Other(s)].tk.refreshToken, redis', now')
      ]_vars

(* C12: every request ends with exactly one response that carries one      *)
(* status and a message or a body, also when a call on the user collection *)
(* or on Redis throws or jwt.verify throws; no request ends without a      *)
(* response and none gets two.                                             *)
C12_ExactlyOneResponse ==
    \A s \in Slots :
        LET p == procs[s]
        IN  /\ p.sent <= 1
            /\ p.pc # "done" => p.sent = 0 /\ p.res = NoRes
            /\ p.pc = "done" =>
                  /\ p.sent = 1
                  /\ p.res.status \in {200, 201, 400, 401, 500}
                  /\ p.res.status >= 400 => p.res.message # ""
                  /\ p.res.status < 400 =>
                        (p.res.message # "" \/ p.res.body # NoBody)

\* A signup whose redis.set threw after the user was created, next to a
\* refresh whose jwt.verify threw: each got its one 500 response.
C12_Witness ==
    \E s \in Slots :
        /\ procs[s].pc = "done"
        /\ procs[s].sent = 1
        /\ procs[s].req.op = "signup"
        /\ procs[s].user # NoUser
        /\ procs[s].res.status = 500
        /\ procs[Other(s)].pc = "done"
        /\ procs[Other(s)].req.op = "refresh"
        /\ procs[Other(s)].req.cookie # NoToken
        /\ procs[Other(s)].res.status = 500

(* C13: in signup() and login() the step that stores the refresh token     *)
(* either stores it and then sets both cookies, or, when the store fails,  *)
(* answers 500 with no cookie set and the cache as it was; the user record *)
(* a signup created before the failed store stays in the collection, and   *)
(* a signup with an email that is in the collection gets 400.              *)
C13_CookiesOnlyAfterStore ==
    [][ /\ \A s \in Slots :
              Completes(s, "set") =>
                  LET p == procs'[s]
                  IN  \/ /\ p.res.status \in {200, 201}
                         /\ p.res.accessCookie = SetCookie(p.tk.accessToken)
                         /\ p.res.refreshCookie = SetCookie(p.tk.refreshToken)
                         /\ Cached(redis', p.user._id) = p.tk.refreshToken
                      \/ /\ p.res.status = 500
                         /\ NoCookiesSet(p.res)
                         /\ redis' = redis
                         /\ issued' = issued
                         /\ users' = users
                         /\ EmailTaken(users', p.user.email)
        /\ \A s \in Slots :
              (procs'[s].pc = "done" /\ ~NoCookiesSet(procs'[s].res)
                  /\ procs'[s].req.op \in {"signup", "login"}) =>
                  procs'[s].tk.refreshToken \in issued'
        /\ \A s \in Slots :
              (/\ procs[s].pc = "findOne"
               /\ procs[s].req.op = "signup"
               /\ procs'[s] # procs[s]
               /\ procs'[s].res.status # 500
               /\ EmailTaken(users, procs[s].req.email)) =>
                  /\ procs'[s].pc = "done"
                  /\ procs'[s].res = JsonMessage(400, "User already exists")
        /\ Len(users') >= Len(users)
        /\ SubSeq(users', 1, Len(users)) = users
      ]_vars

\* A signup whose store failed: answered 500 without cookies, nothing cached
\* for the user it created, and the record is in the collection.
C13_Witness ==
    \E s \in Slots :
        /\ procs[s].pc = "done"
        /\ procs[s].req.op = "signup"
        /\ procs[s].res.status = 500
        /\ NoCookiesSet(procs[s].res)
        /\ procs[s].signed # {}
        /\ procs[s].user._id = Len(users)
        /\ EmailTaken(users, procs[s].req.email)
        /\ Cached(redis, procs[s].user._id) = NoToken

(* C14: whatever is cached under the key of user U is a refresh token that *)
(* embeds U and was handed out by a successful signup or login; no step    *)
(* puts a token of one user under another user's key, and no step of a     *)
(* refresh or getProfile request changes the cache.                        *)
C14_CacheHoldsOwnIssuedTokens ==
    [][ /\ \A u \in UserIds :
              LET v == Cached(redis', u)
              IN  v # NoToken =>
                      /\ v.userId = u
                      /\ v.sig = REFRESH_TOKEN_SECRET
                      /\ v.exp = v.iat + RefreshTTL
                      /\ v \in issued'
                      /\ u <= Len(users')
        /\ \A s \in Slots :
              (/\ procs'[s] # procs[s]
               /\ procs'[s].req.op \in {"refresh", "getProfile"}) =>
                  redis' = redis
      ]_vars

\* Two users, each with its own token cached, and a refresh just answered.
C14_Witness ==
    /\ Cached(redis, 1) # NoToken
    /\ Cached(redis, 2) # NoToken
    /\ Cached(redis, 1).userId = 1
    /\ Cached(redis, 2).userId = 2
    /\ \E s \in Slots :
          /\ procs[s].pc = "done"
          /\ procs[s].req.op = "refresh"
          /\ procs[s].req.cookie.userId = 2
          /\ procs[s].res.status = 200

(* C15: a step signs an access token embedding user id U only if it is     *)
(* (i) the create step of the signup that inserts U, (ii) a login whose    *)
(* email and password are those of U, or (iii) the resumption of a refresh *)
(* whose cookie is signed with the refresh secret, unexpired, embeds U and *)
(* equals the value the request read from the cache; and the value a       *)
(* refresh compares with is the one cached for that user when it read.     *)
C15_AccessTokenOrigins ==
    [][ \A s \in Slots :
          /\ \A tok \in procs'[s].signed \ procs[s].signed :
                tok.sig = ACCESS_TOKEN_SECRET =>
                    LET U == tok.userId
                        r == procs'[s].req
                    IN  \/ /\ r.op = "signup"
                           /\ Len(users) = U - 1
                           /\ Len(users') = U
                           /\ users'[U].email = r.email
                        \/ /\ r.op = "login"
                           /\ U \in 1..Len(users)
                           /\ users[U].email = r.email
                           /\ users[U].password = r.password
                        \/ /\ r.op = "refresh"
                           /\ ValidRefresh(r.cookie, now')
                           /\ r.cookie.userId = U
                           /\ procs[s].storedToken = r.cookie
          /\ (procs[s].pc = "get" /\ procs'[s].pc = "compare") =>
                procs'[s].storedToken = Cached(redis, procs[s].req.cookie.userId)
      ]_vars

\* A refresh answered 200 with a new access token, some time after its
\* refresh token was issued.
C15_Witness ==
    \E s \in Slots :
        /\ procs[s].pc = "done"
        /\ procs[s].req.op = "refresh"
        /\ procs[s].res.status = 200
        /\ procs[s].signed = {procs[s].res.accessCookie.val}
        /\ procs[s].res.accessCookie.val.userId = procs[s].req.cookie.userId
        /\ now > procs[s].req.cookie.iat

(* C16: logout() deletes by the user id in the cookie without comparing    *)
(* tokens: presented with any valid, unexpired refresh token of user U,    *)
(* also one that a later login has superseded, it issues one DEL and no    *)
(* GET, removes what is cached for U, and afterwards refresh() accepts no  *)
(* refresh token of U, the one of U's newest login included.               *)
C16_LogoutWithOldTokenRevokes ==
    [][ (/\ req'.op = "logout"
         /\ ValidRefresh(req'.cookie, now'))
        => LET u == req'.cookie.userId
           IN  /\ res'.status = 200
               /\ redisOps' = {"del"}
               /\ Cached(redis', u) = NoToken
               /\ \A t \in issued : t.userId = u => ~Honored(t, redis', now')
               /\ ~Honored(Cached(redis, u), redis', now')
               /\ \A v \in UserIds \ {u} : redis'[v] = redis[v]
      ]_vars

\* A logout was answered for a cookie older than another unexpired refresh
\* token of the same user, and nothing is cached for that user.
C16_Witness ==
    /\ req.op = "logout"
    /\ res.status = 200
    /\ ValidRefresh(req.cookie, now)
    /\ Cached(redis, req.cookie.userId) = NoToken
    /\ \E t \in issued :
          /\ t.userId = req.cookie.userId
          /\ t.iat > req.cookie.iat
          /\ ValidRefresh(t, now)

\* Both slots hold a signup with one and the same email.
SignupPair(ps) ==
    \A s \in Slots :
        /\ ps[s].req.op = "signup"
        /\ ps[s].req.email = ps["A"].req.email

(* C17: when two signups with the same email interleave, at most one user  *)
(* record with that email exists and at most one request gets 201 and      *)
(* cookies; a request that passed its existence check and reaches          *)
(* User.create after the other's record was inserted is rejected by the    *)
(* unique index (500 from the catch block, nothing created, no cookie),    *)
(* and only a request whose existence check saw the record gets 400.       *)
C17_ConcurrentSignupsOneWinner ==
    [][ SignupPair(procs') =>
        LET e == procs'["A"].req.email
        IN  /\ Cardinality({i \in 1..Len(users') : users'[i].email = e}) <= 1
            /\ Cardinality({s \in Slots : procs'[s].res.status = 201}) <= 1
            /\ \A s \in Slots :
                  /\ ~NoCookiesSet(procs'[s].res) <=> procs'[s].res.status = 201
                  /\ (/\ procs[s].pc = "create"
                      /\ procs'[s] # procs[s]
                      /\ EmailTaken(users, e)) =>
                         /\ procs'[s].pc = "done"
                         /\ procs'[s].res.status = 500
                         /\ procs'[s].res.message # "User already exists"
                         /\ procs'[s].signed = {}
                         /\ users' = users
                  /\ (/\ procs[s].pc = "findOne"
                      /\ procs'[s] # procs[s]) =>
                         IF EmailTaken(users, e)
                         THEN procs'[s].res.status = 400
                         ELSE procs'[s].pc = "create"
                  /\ procs'[s].res.status = 400 => EmailTaken(users', e)
      ]_vars

\* Both signups passed the existence check; one created the user and got 201
\* with cookies, the other was rejected by the unique index.
C17_Witness ==
    /\ SignupPair(procs)
    /\ \E s \in Slots :
          /\ procs[s].pc = "done"
          /\ procs[s].res.status = 201
          /\ procs[s].res.refreshCookie.act = "set"
          /\ procs[Other(s)].pc = "done"
          /\ procs[Other(s)].res.status = 500
          /\ procs[Other(s)].res.message = "E11000 duplicate key"
          /\ NoCookiesSet(procs[Other(s)].res)
    /\ Cardinality({i \in 1..Len(users) :
                        users[i].email = procs["A"].req.email}) = 1

(* C17 as stated: whenever one of two interleaved signups with the same    *)
(* email got 201, the other one is rejected by the unique index (500) and  *)
(* never by the existence check.                                           *)
C17_LoserAlwaysRejectedByIndex ==
    SignupPair(procs) =>
        /\ Cardinality({i \in 1..Len(users) :
                            users[i].email = procs["A"].req.email}) <= 1
        /\ Cardinality({s \in Slots : procs[s].res.status = 201}) <= 1
        /\ \A s \in Slots :
              (procs[s].res.status = 201 /\ procs[Other(s)].pc = "done") =>
                  /\ procs[Other(s)].res.status = 500
                  /\ procs[Other(s)].res.message = "E11000 duplicate key"

(* C18: when a refresh and a logout with the same valid refresh token      *)
(* interleave, the refresh reads what is cached at its read (nothing, once *)
(* the logout is done); a refresh that read the token answers 200 with a   *)
(* new access token even when the entry is gone by then, one that read     *)
(* something else answers 401; and once the logout is done nothing is      *)
(* cached for the user.                                                    *)
C18_RefreshRacesLogout ==
    [][ \A r \in Slots :
          LET l == Other(r)
              c == procs'[r].req.cookie
              u == c.userId
          IN  (/\ procs'[r].req.op = "refresh"
               /\ procs'[l].req.op = "logout"
               /\ procs'[l].req.cookie = c
               /\ ValidRefresh(c, now'))
              => /\ (procs[r].pc = "get" /\ procs'[r].pc = "compare") =>
                       /\ procs'[r].storedToken = Cached(redis, u)
                       /\ procs[l].pc = "done" =>
                              procs'[r].storedToken = NoToken
                 /\ Completes(r, "compare") =>
                       IF procs[r].storedToken = c
                       THEN /\ procs'[r].res.status = 200
                            /\ procs'[r].res.accessCookie.act = "set"
                            /\ procs'[r].res.accessCookie.val.userId = u
                            /\ procs'[r].signed =
                                   {procs'[r].res.accessCookie.val}
                       ELSE /\ procs'[r].res.status = 401
                            /\ procs'[r].signed = {}
                            /\ NoCookiesSet(procs'[r].res)
                 /\ procs'[l].pc = "done" =>
                       /\ procs'[l].res.status = 200
                       /\ Cached(redis', u) = NoToken
      ]_vars

\* The refresh read the token before the logout deleted it and is about to
\* resume: the logout is done and nothing is cached for the user.
C18_Witness ==
    \E r \in Slots :
        /\ procs[r].req.op = "refresh"
        /\ procs[r].pc = "compare"
        /\ procs[r].storedToken = procs[r].req.cookie
        /\ ValidRefresh(procs[r].req.cookie, now)
        /\ procs[Other(r)].req.op = "logout"
        /\ procs[Other(r)].req.cookie = procs[r].req.cookie
        /\ procs[Other(r)].pc = "done"
        /\ Cached(redis, procs[r].req.cookie.userId) = NoToken

====
